---- MODULE Spec2Model ----
(***************************************************************************)
(* The INSPIRE contact-details scraper: the navigation engine              *)
(* (scraper_backend.py, class InspireScraper) and its driver (app.py,      *)
(* run_scraper with the start and stop requests).                          *)
(*                                                                         *)
(* A transport call is split in two steps, the request (payload built from *)
(* the stored tokens, network call made) and the response (the rest of the *)
(* engine method and the driver's code up to its next loop head or engine  *)
(* call), because the stop request runs in another thread and can arrive   *)
(* while the run thread waits for the network.                             *)
(*                                                                         *)
(* The remote site is the environment: every response is chosen among the  *)
(* bodies a server can send.  A token issued in response number n for      *)
(* field f is the pair <<n, f>>, so that tokens of different responses      *)
(* differ; the empty string is NoToken.  Option labels are not modelled    *)
(* apart from their ids (the label of district "2" stands for itself).     *)
(***************************************************************************)
EXTENDS Integers, Sequences, FiniteSets, TLC

\* ------------------------------------------------------------------ bounds
\* Districts the remote site may list for the state.
MaxDistricts == 2
\* Schools the remote site may list for a district.
MaxSchools == 3
\* Engine calls one client of the engine API makes (SpecEngine only).
MaxCalls == 3
\* Responses of one session that are not the regular one of their step
\* (regular: the transport succeeds, the body carries the three tokens, the
\* full option list or a results row, and parses).
MaxIrregular == 2
\* Start requests the server receives (SpecServer only).
MaxStarts == 2
\* Rows of a results table (SpecRows only).
MaxRows == 3
\* Options of a dropdown (SpecDropdown only).
MaxOptions == 2

\* ------------------------------------------------------- program constants
\* Config.MAX_RETRIES
MAX_RETRIES == 3

\* ------------------------------------------------------------ basic values
IdStr == <<"1", "2", "3", "4", "5", "6">>
DistrictIds == {IdStr[i] : i \in 1..MaxDistricts}
SchoolIds == {IdStr[i] : i \in 1..MaxSchools}
\* The state ids a start request may name (one of the keys of STATES).
StateIds == {"1"}
\* The "districts" field of a start request: "all" or chosen district ids.
Selections == {{"all"}} \cup {{d} : d \in DistrictIds}

\* The /api/start requests of one server.
Starts == 1..MaxStarts

Fields == {"viewstate", "eventvalidation", "viewstategen"}
NoToken == <<0, "">>
Token(n, f) == <<n, f>>

\* Python values returned by the engine: None, False, True, a dict (the
\* sequence of its keys in insertion order) or a list (of contact records).
None == [kind |-> "None", val |-> <<>>]
False == [kind |-> "False", val |-> <<>>]
True == [kind |-> "True", val |-> <<>>]
Dict(keys) == [kind |-> "dict", val |-> keys]
List(items) == [kind |-> "list", val |-> items]
\* Python truthiness of such a value ("if not x").
Truthy(v) == v.kind = "True" \/ (v.kind \in {"dict", "list"} /\ Len(v.val) > 0)

\* The ids of S as the ascending sequence the site lists them in.
RECURSIVE Ascending(_, _)
Ascending(S, i) ==
    IF i > Len(IdStr) THEN <<>>
    ELSE IF IdStr[i] \in S THEN <<IdStr[i]>> \o Ascending(S, i + 1)
    ELSE Ascending(S, i + 1)

\* -------------------------------------------------------------- responses
\* What make_request hands back.  ok = FALSE is None (the transport failed
\* after its retries).  Otherwise: n the response's number, has the token
\* markers (hidden inputs) the body carries, selectId/options the one
\* <select> of the body with its option values in document order ("0" is the
\* "--Select--" entry), hasTable/rows the results table with the cell texts
\* of its <tr> rows (the header first), raises whether the markup parser raises on
\* the body.
NoResponse ==
    [ok |-> FALSE, n |-> 0, has |-> {}, selectId |-> "", options |-> <<>>,
     hasTable |-> FALSE, rows |-> <<>>, raises |-> FALSE]

MarkerSets == {h \in SUBSET Fields : Cardinality(h) >= 2}

Body(n, has, selectId, options, hasTable, rows, raises) ==
    [ok |-> TRUE, n |-> n, has |-> has, selectId |-> selectId,
     options |-> options, hasTable |-> hasTable, rows |-> rows,
     raises |-> raises]

\* The <td> texts of a table row.  The header row has <th> cells only; a
\* results row has six: serial, school, name, mobile, email, number.
HeaderRow == <<>>
GoodRow(school) == <<"1", school, "N", "", "", "A">>
BlankRow(school) == <<"1", school, "", "", "", "A">>

PageRegular(n) == Body(n, Fields, "", <<>>, FALSE, <<>>, FALSE)
PageResponses(n) ==
    {NoResponse, PageRegular(n)}
    \cup {Body(n, h, "", <<>>, FALSE, <<>>, FALSE) : h \in MarkerSets}
    \cup {Body(n, Fields, "", <<>>, FALSE, <<>>, TRUE)}

ModeRegular(n) == Body(n, Fields, "", <<>>, FALSE, <<>>, FALSE)
ModeResponses(n) ==
    {NoResponse, ModeRegular(n)}
    \cup {Body(n, h, "", <<>>, FALSE, <<>>, FALSE) : h \in MarkerSets}

DropdownRegular(n, id, ids) ==
    Body(n, Fields, id, <<"0">> \o Ascending(ids, 1), FALSE, <<>>, FALSE)
DropdownResponses(n, id, ids) ==
    {NoResponse, DropdownRegular(n, id, ids)}
    \cup {Body(n, h, id, <<"0">> \o Ascending(ids, 1), FALSE, <<>>, FALSE) :
            h \in MarkerSets}
    \cup {Body(n, Fields, id, <<"0">> \o Ascending(S, 1), FALSE, <<>>, FALSE) :
            S \in SUBSET ids}
    \cup {Body(n, Fields, "", <<>>, FALSE, <<>>, FALSE)}
    \cup {Body(n, Fields, id, <<"0">>, FALSE, <<>>, TRUE)}

SubmitRegular(n, school) ==
    Body(n, Fields, "", <<>>, TRUE, <<HeaderRow, GoodRow(school)>>, FALSE)
SubmitResponses(n, school) ==
    {NoResponse, SubmitRegular(n, school)}
    \cup {Body(n, Fields, "", <<>>, FALSE, <<>>, FALSE)}
    \cup {Body(n, Fields, "", <<>>, TRUE, <<HeaderRow, BlankRow(school)>>,
                FALSE)}
    \cup {Body(n, Fields, "", <<>>, TRUE, <<HeaderRow>>, TRUE)}

ddlDist == "ctl00_ContentPlaceHolder1_ddlDist"
ddlSchool == "ctl00_ContentPlaceHolder1_ddlSchool"

\* ------------------------------------------------- texts, symbol by symbol
\* A text is a sequence of symbols.  A symbol is a character (a digit, the
\* bar, a letter, a blank) or one of the words of the delta format, which
\* stand for single letters of the alphabet; a length counts symbols.
Bar == "|"
Digits == <<"0", "1", "2", "3", "4", "5", "6", "7", "8", "9">>
Digit == {Digits[i] : i \in DOMAIN Digits}
hiddenField == "hiddenField"
MarkerName ==
    [f \in Fields |->
        CASE f = "viewstate" -> "__VIEWSTATE"
          [] f = "eventvalidation" -> "__EVENTVALIDATION"
          [] OTHER -> "__VIEWSTATEGENERATOR"]
\* Nothing returned yet.
Unset == [kind |-> "unset"]

\* ------------------------------------------------------------------ state
VARIABLES
    \* InspireScraper: the three stored tokens.
    viewstate, eventvalidation, viewstategen,
    \* The engine call in progress or last made: its method, the payload it
    \* built, the response make_request returned, whether the run thread is
    \* still inside make_request, and the value the method returned.
    op, payload, response, waiting, ret,
    \* Transport calls made so far (numbers the responses), and how many of
    \* the responses were not the regular one.
    requests, irregular,
    \* Error-level entries of the log file, in order.
    log,
    \* app.py: the shared status dictionary.
    scraping_status,
    \* run_scraper: its position and locals.
    pc, state_id, selected_districts, districts_to_scrape, dist_i,
    schools, school_i, district_data, created_files, csv,
    \* History, not program state: the tokens stored when the call in op was
    \* made; what has succeeded on this session (the mode selection, the
    \* state and district last selected) and whether its initial page lacked
    \* a hidden input; the districts and schools an engine call was issued
    \* for; the value each district's call returned; the schools whose submit
    \* ended in a transport failure; whether the stop flag was read (and
    \* found clear) since the last engine call returned; whether the stop
    \* request arrived while the run thread was inside a transport call.
    before, session, attempted, returned, failedSubmits, stopChecked,
    stopInFlight,
    \* InspireScraper.session: whether cleanup() has closed it.
    closed,
    \* History: where the run was (its position and district) when the stop
    \* request arrived, and the transport calls started since.
    stopAt, afterStop,
    \* app.py, the threaded server: the position of each /api/start request
    \* handler and of the run_scraper thread it started.
    handler, thread,
    \* One call of a parsing function on its own: the text it is given and
    \* the value it returns.
    input, output,
    \* One make_request call on its own: where it is, whether the rate-limit
    \* delay has been slept, the retries the adapter's Retry object has left
    \* and the outcomes of the network attempts made.
    mr_at, slept, retry_total, attempts

engineVars == <<viewstate, eventvalidation, viewstategen, op, payload,
                response, waiting, ret, requests, irregular, log, before,
                session, closed, afterStop>>
runVars == <<scraping_status, pc, state_id, selected_districts,
             districts_to_scrape, dist_i, schools, school_i, district_data,
             created_files, csv, attempted, returned, failedSubmits,
             stopChecked, stopInFlight, stopAt>>
\* The variables of the server's request handlers, which a single run
\* leaves alone.
apart == <<handler, thread, input, output, mr_at, slept, retry_total,
           attempts>>
vars == <<engineVars, runVars, apart>>
loopVars == <<districts_to_scrape, dist_i, schools, school_i, district_data,
              created_files, csv>>
history == <<attempted, returned, failedSubmits, stopInFlight, stopAt>>

\* ------------------------------------------------ scraper_backend.py: parsing
\* parse_delta: each token is looked up on its own; a missing marker gives "".
parse_delta(text) ==
    [f \in Fields |-> IF f \in text.has THEN Token(text.n, f) ELSE NoToken]

\* int(match.group(1)): the decimal value of a run of digits.
DigitValue(c) == (CHOOSE i \in DOMAIN Digits : Digits[i] = c) - 1
RECURSIVE int(_)
int(ds) ==
    IF ds = <<>> THEN 0
    ELSE 10 * int(SubSeq(ds, 1, Len(ds) - 1)) + DigitValue(ds[Len(ds)])

\* The end of the run of digits that starts at position i.
DigitsEnd(text, i) ==
    CHOOSE j \in i..(Len(text) + 1) :
        /\ \A k \in i..(j - 1) : text[k] \in Digit
        /\ j = Len(text) + 1 \/ text[j] \notin Digit

\* The pattern \|(\d+)\|hiddenField\|{name}\| matches at position i.
Matches(text, i, name) ==
    LET j == DigitsEnd(text, i + 1) IN
    /\ text[i] = Bar
    /\ j > i + 1
    /\ j + 4 <= Len(text)
    /\ text[j] = Bar
    /\ text[j + 1] = hiddenField
    /\ text[j + 2] = Bar
    /\ text[j + 3] = name
    /\ text[j + 4] = Bar

\* The slice text[a:b] of Python (0-based, b excluded, cut at the end).
Slice(text, a, b) ==
    SubSeq(text, a + 1, IF b > Len(text) THEN Len(text) ELSE b)

\* parse_delta's extract: re.search finds the leftmost match; the value is
\* the declared number of symbols after it.
extract(text, name) ==
    LET M == {i \in DOMAIN text : Matches(text, i, name)} IN
    IF M = {} THEN <<>>
    ELSE LET i == CHOOSE m \in M : \A n \in M : m <= n
             j == DigitsEnd(text, i + 1)
             length == int(SubSeq(text, i + 1, j - 1))
             start_pos == j + 4
         IN  Slice(text, start_pos, start_pos + length)

\* parse_delta on a text: the three fields, each looked up on its own.
parse_delta_text(text) ==
    [f \in Fields |-> extract(text, MarkerName[f])]

\* extract_dropdown_from_delta, once the markup is parsed: {} when the named
\* select is absent, else its options but "" and "0".
extract_dropdown_from_delta(text, dropdown_id) ==
    IF text.selectId # dropdown_id THEN <<>>
    ELSE SelectSeq(text.options, LAMBDA v : v # "" /\ v # "0")

\* extract_viewstate_from_html without its raise: a missing input reads as
\* the empty string.
extract_viewstate_from_html_lenient(soup) ==
    [raised |-> FALSE, tokens |-> parse_delta(soup)]

\* extract_viewstate_from_html: raises ValueError unless all three hidden
\* inputs are there.
extract_viewstate_from_html(soup) ==
    IF soup.has # Fields
    THEN [raised |-> TRUE, tokens |-> parse_delta(soup)]
    ELSE [raised |-> FALSE, tokens |-> parse_delta(soup)]

\* --------------------------------------------- scraper_backend.py: the engine
\* What a method leaves behind: the stored tokens, the value returned,
\* whether an exception left the method instead, and what it logged.
Outcome(vs, ev, vg, value, raised, logged) ==
    [viewstate |-> vs, eventvalidation |-> ev, viewstategen |-> vg,
     ret |-> value, raised |-> raised, logged |-> logged]

Entry(msg, subject) == [msg |-> msg, subject |-> subject]

\* make_request logs the exception and returns None.
RequestError == <<Entry("Request error", "")>>

Kept(value, logged) ==
    Outcome(viewstate, eventvalidation, viewstategen, value, FALSE, logged)

\* The three assignments with the last one left out.
Replaced_two_of_three(delta, value) ==
    Outcome(delta.viewstate, delta.eventvalidation, viewstategen,
            value, FALSE, <<>>)

Replaced(delta, value) ==
    Outcome(delta.viewstate, delta.eventvalidation, delta.viewstategen,
            value, FALSE, <<>>)

initialize_page(r) ==
    IF ~r.ok THEN Kept(False, RequestError)
    ELSE IF r.raises
    THEN Outcome(viewstate, eventvalidation, viewstategen, None, TRUE, <<>>)
    ELSE LET x == extract_viewstate_from_html(r) IN
         IF x.raised THEN Kept(False, <<>>) ELSE Replaced(x.tokens, True)

select_school_mode(r) ==
    IF ~r.ok THEN Kept(False, RequestError)
    ELSE Replaced(parse_delta(r), True)

select_state(r) ==
    IF ~r.ok THEN Kept(None, RequestError)
    ELSE IF r.raises THEN Replaced(parse_delta(r), None)
    ELSE Replaced(parse_delta(r), Dict(extract_dropdown_from_delta(r, ddlDist)))

\* select_district giving up between its assignments when the stop flag is up.
select_district_stoppable(r) ==
    IF ~r.ok THEN Kept(None, RequestError)
    ELSE IF scraping_status.should_stop
    THEN Outcome(parse_delta(r).viewstate, eventvalidation, viewstategen,
                 None, FALSE, <<>>)
    ELSE IF r.raises THEN Replaced(parse_delta(r), None)
    ELSE Replaced(parse_delta(r),
                  Dict(extract_dropdown_from_delta(r, ddlSchool)))

select_district(r) ==
    IF ~r.ok THEN Kept(None, RequestError)
    ELSE IF r.raises THEN Replaced(parse_delta(r), None)
    ELSE Replaced(parse_delta(r),
                  Dict(extract_dropdown_from_delta(r, ddlSchool)))

contact_data(cols, state_name, dist_name) ==
    [State |-> state_name, District |-> dist_name, School |-> cols[2],
     Name |-> cols[3], Mobile |-> cols[4], Email |-> cols[5],
     Application_Number |-> cols[6]]

\* The rows of the table turned into records with the header row kept in.
Contacts_from_first_row(table_rows, state_name, dist_name) ==
    LET keep(cols) == Len(cols) >= 6
                      /\ (Len(cols[3]) > 0 \/ Len(cols[4]) > 0
                            \/ Len(cols[5]) > 0)
        kept == SelectSeq(table_rows, keep)
    IN  [i \in 1..Len(kept) |-> contact_data(kept[i], state_name, dist_name)]

\* "rows = table.select('tr')[1:]" and the loop over them, on the stripped
\* cell texts of each row: a row of six cells or more gives a record, kept
\* if its Name, Mobile or Email is a non-empty string.
Contacts(table_rows, state_name, dist_name) ==
    LET rows == SubSeq(table_rows, 2, Len(table_rows))
        keep(cols) == Len(cols) >= 6
                      /\ (Len(cols[3]) > 0 \/ Len(cols[4]) > 0
                            \/ Len(cols[5]) > 0)
        kept == SelectSeq(rows, keep)
    IN  [i \in 1..Len(kept) |-> contact_data(kept[i], state_name, dist_name)]

\* str.strip(): the text without its leading and trailing whitespace.
Whitespace == {" ", "\t", "\n"}
RECURSIVE lstrip(_)
lstrip(t) ==
    IF t # <<>> /\ t[1] \in Whitespace THEN lstrip(Tail(t)) ELSE t
RECURSIVE rstrip(_)
rstrip(t) ==
    IF t # <<>> /\ t[Len(t)] \in Whitespace
    THEN rstrip(SubSeq(t, 1, Len(t) - 1)) ELSE t
strip(t) == rstrip(lstrip(t))

\* "cols = [cell.text.strip() for cell in row.find_all('td')]".
cols_of(row) == [i \in DOMAIN row |-> strip(row[i])]

\* The table part of scrape_school_contacts_return on the texts of the
\* <td> cells of the table's rows, symbol by symbol.
table_contacts(table_rows, state_name, dist_name) ==
    Contacts([i \in DOMAIN table_rows |-> cols_of(table_rows[i])],
             state_name, dist_name)

\* scrape_school_contacts_return taking the tokens of its response, as the
\* select steps do.
scrape_school_storing(r, state_name, dist_name, school_name) ==
    IF ~r.ok THEN Kept(List(<<>>), RequestError)
    ELSE IF r.raises
    THEN Kept(List(<<>>), <<Entry("Failed to scrape school", school_name)>>)
    ELSE IF ~r.hasTable THEN Replaced(parse_delta(r), List(<<>>))
    ELSE Replaced(parse_delta(r),
                  List(Contacts(r.rows, state_name, dist_name)))

scrape_school_contacts_return(r, state_name, dist_name, school_name) ==
    IF ~r.ok THEN Kept(List(<<>>), RequestError)
    ELSE IF r.raises
    THEN Kept(List(<<>>), <<Entry("Failed to scrape school", school_name)>>)
    ELSE IF ~r.hasTable THEN Kept(List(<<>>), <<>>)
    ELSE Kept(List(Contacts(r.rows, state_name, dist_name)), <<>>)

\* "options[value] = label" on a dict kept as the sequence of its items in
\* insertion order: a key already there keeps its place and takes the label.
setitem(options, value, label) ==
    IF \E i \in DOMAIN options : options[i].value = value
    THEN [i \in DOMAIN options |->
            IF options[i].value = value
            THEN [value |-> value, label |-> label] ELSE options[i]]
    ELSE Append(options, [value |-> value, label |-> label])

\* soup.find("select", {"id": dropdown_id}): the first such element of the
\* document (a sequence of <select> elements), as a sequence of none or one.
find_select(soup, dropdown_id) ==
    LET at == {i \in DOMAIN soup : soup[i].id = dropdown_id} IN
    IF at = {} THEN <<>>
    ELSE <<soup[CHOOSE i \in at : \A k \in at : i <= k]>>

\* option.get("value", ""): the attribute, "" when the option has none.
option_value(option) == IF option.has_value THEN option.value ELSE ""

\* The loop of extract_dropdown_from_delta with "0" taken for a value.
RECURSIVE options_keeping_zero(_, _)
options_keeping_zero(all, n) ==
    IF n = 0 THEN <<>>
    ELSE LET value == option_value(all[n])
             label == strip(all[n].text)
             options == options_keeping_zero(all, n - 1)
         IN  IF value # "" /\ label # <<>>
             THEN setitem(options, value, label) ELSE options

\* The loop of extract_dropdown_from_delta over the first n options.
RECURSIVE options_upto(_, _)
options_upto(all, n) ==
    IF n = 0 THEN <<>>
    ELSE LET value == option_value(all[n])
             label == strip(all[n].text)
             options == options_upto(all, n - 1)
         IN  IF value # "" /\ value # "0" /\ label # <<>>
             THEN setitem(options, value, label) ELSE options

\* extract_dropdown_from_delta letting the "--Select--" entry through.
dropdown_options_keeping_zero(soup, dropdown_id) ==
    LET dropdown == find_select(soup, dropdown_id) IN
    IF dropdown = <<>> THEN <<>>
    ELSE options_keeping_zero(dropdown[1].options, Len(dropdown[1].options))

\* extract_dropdown_from_delta on a parsed document, labels symbol by
\* symbol.
dropdown_options(soup, dropdown_id) ==
    LET dropdown == find_select(soup, dropdown_id) IN
    IF dropdown = <<>> THEN <<>>
    ELSE options_upto(dropdown[1].options, Len(dropdown[1].options))

\* The payloads, each built from the tokens stored at the moment of the call.
\* A form field the payload does not carry.
Absent == "(absent)"

Get == [method |-> "GET", target |-> Absent, viewstate |-> NoToken,
        viewstategen |-> NoToken, eventvalidation |-> NoToken,
        asyncpost |-> Absent, rblSelect |-> Absent, ddlState |-> Absent,
        ddlDist |-> Absent, ddlSchool |-> Absent]

Post(target, state, dist, school) ==
    [method |-> "POST", target |-> target, viewstate |-> viewstate,
     viewstategen |-> viewstategen, eventvalidation |-> eventvalidation,
     asyncpost |-> "true", rblSelect |-> "2", ddlState |-> state,
     ddlDist |-> dist, ddlSchool |-> school]

payload_select_school_mode ==
    Post("ctl00$ContentPlaceHolder1$rblSelect$2", Absent, Absent, Absent)
payload_select_state(state) ==
    Post("ctl00$ContentPlaceHolder1$ddlState", state, Absent, Absent)
\* The district payload carrying the newest selection only.
payload_select_district_newest_only(state, dist) ==
    Post("ctl00$ContentPlaceHolder1$ddlDist", Absent, dist, Absent)

payload_select_district(state, dist) ==
    Post("ctl00$ContentPlaceHolder1$ddlDist", state, dist, Absent)
payload_scrape_school(state, dist, school) ==
    Post("ctl00$ContentPlaceHolder1$btnSubmit", state, dist, school)

Stored ==
    [f \in Fields |->
        CASE f = "viewstate" -> viewstate
          [] f = "eventvalidation" -> eventvalidation
          [] OTHER -> viewstategen]

\* make_request: the network call is made and the thread waits in it.
Request(method, p, regular, responses) ==
    /\ ~waiting
    /\ op' = method
    /\ payload' = p
    /\ requests' = requests + 1
    /\ response' \in IF irregular < MaxIrregular THEN responses ELSE {regular}
    /\ irregular' = IF response' = regular THEN irregular ELSE irregular + 1
    /\ waiting' = TRUE
    /\ before' = Stored
    /\ afterStop' = IF scraping_status.should_stop THEN afterStop + 1
                    ELSE afterStop
    /\ UNCHANGED <<viewstate, eventvalidation, viewstategen, ret, log,
                   session, closed, apart>>

\* The method handles the response and returns; the caller may log more.
Return(o, more) ==
    /\ waiting
    /\ viewstate' = o.viewstate
    /\ eventvalidation' = o.eventvalidation
    /\ viewstategen' = o.viewstategen
    /\ ret' = o.ret
    /\ log' = log \o o.logged \o more
    /\ waiting' = FALSE
    /\ session' =
          CASE op = "initialize_page" /\ response.ok /\ ~response.raises
                 /\ response.has # Fields ->
                   [session EXCEPT !.malformed = TRUE]
            [] op = "select_school_mode" /\ o.ret.kind = "True" ->
                   [session EXCEPT !.mode = TRUE]
            [] op = "select_state" /\ o.ret.kind = "dict" ->
                   [session EXCEPT !.state = payload.ddlState]
            [] op = "select_district" /\ o.ret.kind = "dict" ->
                   [session EXCEPT !.dist = payload.ddlDist]
            [] OTHER -> session
    /\ UNCHANGED <<op, payload, response, requests, irregular, before,
                   closed, afterStop, apart>>

\* ------------------------------------------------------------------- Init
Fresh ==
    /\ viewstate = NoToken
    /\ eventvalidation = NoToken
    /\ viewstategen = NoToken
    /\ op = ""
    /\ payload = Get
    /\ response = NoResponse
    /\ waiting = FALSE
    /\ ret = None
    /\ requests = 0
    /\ irregular = 0
    /\ log = <<>>
    /\ before = [f \in Fields |-> NoToken]
    /\ session = [malformed |-> FALSE, mode |-> FALSE, state |-> Absent,
                  dist |-> Absent]
    /\ scraping_status = [is_running |-> FALSE, should_stop |-> FALSE,
                          error |-> "None", total_records |-> 0]
    /\ state_id = ""
    /\ selected_districts = {}
    /\ districts_to_scrape = <<>>
    /\ dist_i = 0
    /\ schools = <<>>
    /\ school_i = 0
    /\ district_data = <<>>
    /\ created_files = <<>>
    /\ csv = [d \in DistrictIds |-> <<>>]
    /\ attempted = {}
    /\ returned = [d \in DistrictIds |-> False]
    /\ failedSubmits = {}
    /\ stopChecked = FALSE
    /\ stopInFlight = FALSE
    /\ closed = FALSE
    /\ stopAt = [pc |-> "", dist |-> ""]
    /\ afterStop = 0
    /\ handler = [h \in Starts |-> "new"]
    /\ thread = [h \in Starts |-> "none"]
    /\ output = Unset
    /\ mr_at = "idle"
    /\ slept = FALSE
    /\ retry_total = MAX_RETRIES
    /\ attempts = <<>>

Init == Fresh /\ pc = "idle" /\ input = <<>>


\* ------------------------------------------------------- app.py: the driver
dist_id == districts_to_scrape[dist_i]
school_id == schools[school_i]
\* STATES.get(state_id) and the dropdown labels: a name stands for its id.
state_name == state_id
dist_name == dist_id
school_name == school_id
\* The CSV file of a district, named after the district.
csv_filename == dist_name

\* callback.set_error, then the return through "finally".
set_error(error_msg) ==
    [scraping_status EXCEPT !.error = error_msg]
\* "finally" leaving the flag as it is.
Finally_keeping_flag(status) ==
    status
Finally(status) ==
    [status EXCEPT !.is_running = FALSE]

\* /api/start: refuses while a run is active, else resets the status and
\* starts run_scraper.  One run is followed.
start_scraping ==
    /\ pc = "idle"
    /\ ~scraping_status.is_running
    /\ \E s \in StateIds, sel \in Selections :
          /\ state_id' = s
          /\ selected_districts' = sel
    /\ scraping_status' = [is_running |-> TRUE, should_stop |-> FALSE,
                           error |-> "None", total_records |-> 0]
    /\ pc' = "initialize_page"
    /\ UNCHANGED <<engineVars, loopVars, history, stopChecked, apart>>

\* /api/stop: raises the flag while a run is active (raising it again
\* changes nothing).
stop_scraping ==
    /\ scraping_status.is_running
    /\ ~scraping_status.should_stop
    /\ scraping_status' = [scraping_status EXCEPT !.should_stop = TRUE]
    /\ stopInFlight' = waiting
    /\ stopAt' = [pc |-> pc,
                  dist |-> IF pc \in {"school_loop", "scrape_school"}
                           THEN districts_to_scrape[dist_i] ELSE ""]
    /\ UNCHANGED <<engineVars, pc, state_id, selected_districts, loopVars,
                   attempted, returned, failedSubmits, stopChecked, apart>>

\* run_scraper up to scraper.initialize_page()'s network call.
run_initialize_request ==
    /\ pc = "initialize_page"
    /\ Request("initialize_page", Get, PageRegular(requests + 1),
               PageResponses(requests + 1))
    /\ scraping_status' = [scraping_status EXCEPT !.is_running = TRUE,
                              !.error = "None", !.total_records = 0]
    /\ UNCHANGED <<pc, state_id, selected_districts, loopVars, history,
                   stopChecked>>

\* An exception out of the engine: "except Exception" reports and logs it.
Crash(o) == IF o.raised THEN <<Entry("Error in scraper", "")>> ELSE <<>>

run_initialize_response ==
    /\ pc = "initialize_page"
    /\ LET o == initialize_page(response) IN
         /\ Return(o, Crash(o))
         /\ IF o.raised
            THEN /\ scraping_status' = Finally(set_error("exception"))
                 /\ pc' = "done"
            ELSE IF ~Truthy(o.ret)
            THEN /\ scraping_status' =
                      Finally(set_error("Failed to initialize scraper"))
                 /\ pc' = "done"
            ELSE /\ pc' = "select_school_mode"
                 /\ UNCHANGED scraping_status
    /\ stopChecked' = FALSE
    /\ UNCHANGED <<state_id, selected_districts, loopVars, history>>

run_mode_request ==
    /\ pc = "select_school_mode"
    /\ Request("select_school_mode", payload_select_school_mode,
               ModeRegular(requests + 1),
               ModeResponses(requests + 1))
    /\ UNCHANGED runVars

\* run_mode_response going on whatever select_school_mode returned.
run_mode_response_unchecked ==
    /\ pc = "select_school_mode"
    /\ Return(select_school_mode(response), <<>>)
    /\ pc' = "select_state"
    /\ stopChecked' = FALSE
    /\ UNCHANGED <<scraping_status, state_id, selected_districts, loopVars,
                   history>>

run_mode_response ==
    /\ pc = "select_school_mode"
    /\ LET o == select_school_mode(response) IN
         /\ Return(o, <<>>)
         /\ IF ~Truthy(o.ret)
            THEN /\ scraping_status' =
                      Finally(set_error("Failed to select school mode"))
                 /\ pc' = "done"
            ELSE /\ pc' = "select_state"
                 /\ UNCHANGED scraping_status
    /\ stopChecked' = FALSE
    /\ UNCHANGED <<state_id, selected_districts, loopVars, history>>

run_state_request ==
    /\ pc = "select_state"
    /\ Request("select_state", payload_select_state(state_id),
               DropdownRegular(requests + 1, ddlDist, DistrictIds),
               DropdownResponses(requests + 1, ddlDist, DistrictIds))
    /\ UNCHANGED runVars

\* "if not all_districts" gives up; else the selection is filtered and the
\* district loop starts.
run_state_response ==
    /\ pc = "select_state"
    /\ LET o == select_state(response)
           all_districts == o.ret.val
       IN
         /\ Return(o, <<>>)
         /\ IF ~Truthy(o.ret)
            THEN /\ scraping_status' =
                      Finally(set_error("Failed to get districts"))
                 /\ pc' = "done"
                 /\ UNCHANGED <<districts_to_scrape, dist_i>>
            ELSE /\ districts_to_scrape' =
                      IF "all" \in selected_districts THEN all_districts
                      ELSE SelectSeq(all_districts,
                                     LAMBDA k : k \in selected_districts)
                 /\ dist_i' = 1
                 /\ pc' = "district_loop"
                 /\ UNCHANGED scraping_status
    /\ stopChecked' = FALSE
    /\ UNCHANGED <<state_id, selected_districts, schools, school_i,
                   district_data, created_files, csv, history>>

\* "for dist_id, dist_name in districts_to_scrape.items()": the loop head
\* with its stop check.
district_loop ==
    /\ pc = "district_loop"
    /\ IF dist_i > Len(districts_to_scrape) \/ scraping_status.should_stop
       THEN /\ pc' = "finish"
            /\ UNCHANGED <<district_data, stopChecked>>
       ELSE /\ district_data' = <<>>
            /\ stopChecked' = TRUE
            /\ pc' = "select_district"
    /\ UNCHANGED <<engineVars, scraping_status, state_id, selected_districts,
                   districts_to_scrape, dist_i, schools, school_i,
                   created_files, csv, history, apart>>

run_district_request ==
    /\ pc = "select_district"
    /\ Request("select_district", payload_select_district(state_id, dist_id),
               DropdownRegular(requests + 1, ddlSchool, SchoolIds),
               DropdownResponses(requests + 1, ddlSchool, SchoolIds))
    /\ attempted' = attempted \cup {<<dist_id, "">>}
    /\ UNCHANGED <<scraping_status, pc, state_id, selected_districts,
                   loopVars, returned, failedSubmits, stopChecked,
                   stopInFlight, stopAt>>

\* run_district_response returning from run_scraper, instead of going on,
\* when there are no schools.
run_district_response_returning ==
    /\ pc = "select_district"
    /\ LET o == select_district(response) IN
         /\ returned' = [returned EXCEPT ![dist_id] = o.ret]
         /\ IF ~Truthy(o.ret)
            THEN /\ Return(o, <<Entry("Failed to get schools", dist_name)>>)
                 /\ scraping_status' = Finally(scraping_status)
                 /\ pc' = "done"
                 /\ UNCHANGED <<dist_i, schools, school_i>>
            ELSE /\ Return(o, <<>>)
                 /\ schools' = o.ret.val
                 /\ school_i' = 1
                 /\ pc' = "school_loop"
                 /\ UNCHANGED <<dist_i, scraping_status>>
    /\ stopChecked' = FALSE
    /\ UNCHANGED <<state_id, selected_districts, districts_to_scrape,
                   district_data, created_files, csv, attempted,
                   failedSubmits, stopInFlight, stopAt>>

\* "if not schools" logs and goes on with the next district.
run_district_response ==
    /\ pc = "select_district"
    /\ LET o == select_district(response) IN
         /\ returned' = [returned EXCEPT ![dist_id] = o.ret]
         /\ IF ~Truthy(o.ret)
            THEN /\ Return(o, <<Entry("Failed to get schools", dist_name)>>)
                 /\ dist_i' = dist_i + 1
                 /\ pc' = "district_loop"
                 /\ UNCHANGED <<schools, school_i>>
            ELSE /\ Return(o, <<>>)
                 /\ schools' = o.ret.val
                 /\ school_i' = 1
                 /\ pc' = "school_loop"
                 /\ UNCHANGED dist_i
    /\ stopChecked' = FALSE
    /\ UNCHANGED <<scraping_status, state_id, selected_districts,
                   districts_to_scrape, district_data, created_files, csv,
                   attempted, failedSubmits, stopInFlight, stopAt>>

\* "for idx, (school_id, school_name) in enumerate(schools.items(), 1)": the
\* loop head with its stop check.
school_loop ==
    /\ pc = "school_loop"
    /\ IF school_i > Len(schools) \/ scraping_status.should_stop
       THEN /\ pc' = "save_district"
            /\ UNCHANGED stopChecked
       ELSE /\ stopChecked' = TRUE
            /\ pc' = "scrape_school"
    /\ UNCHANGED <<engineVars, scraping_status, state_id, selected_districts,
                   loopVars, history, apart>>

run_submit_request ==
    /\ pc = "scrape_school"
    /\ Request("scrape_school_contacts_return",
               payload_scrape_school(state_id, dist_id, school_id),
               SubmitRegular(requests + 1, school_id),
               SubmitResponses(requests + 1, school_id))
    /\ attempted' = attempted \cup {<<dist_id, school_id>>}
    /\ UNCHANGED <<scraping_status, pc, state_id, selected_districts,
                   loopVars, returned, failedSubmits, stopChecked,
                   stopInFlight, stopAt>>

\* "if contacts" extends the district's data and the record count.
run_submit_response ==
    /\ pc = "scrape_school"
    /\ LET o == scrape_school_contacts_return(response, state_name, dist_name,
                                              school_name)
           contacts == o.ret.val
       IN
         /\ Return(o, <<>>)
         /\ district_data' = district_data \o contacts
         /\ scraping_status' =
              [scraping_status EXCEPT
                 !.total_records = scraping_status.total_records + Len(contacts)]
    /\ failedSubmits' = IF response.ok THEN failedSubmits
                        ELSE failedSubmits \cup {<<dist_id, school_id>>}
    /\ school_i' = school_i + 1
    /\ pc' = "school_loop"
    /\ stopChecked' = FALSE
    /\ UNCHANGED <<state_id, selected_districts, districts_to_scrape, dist_i,
                   schools, created_files, csv, attempted, returned,
                   stopInFlight, stopAt>>

\* save_district leaving the loop without writing once the stop flag is up.
save_district_unless_stopped ==
    /\ pc = "save_district"
    /\ IF district_data # <<>> /\ ~scraping_status.should_stop
       THEN /\ csv' = [csv EXCEPT ![csv_filename] = district_data]
            /\ created_files' = Append(created_files, csv_filename)
       ELSE UNCHANGED <<csv, created_files>>
    /\ dist_i' = dist_i + 1
    /\ pc' = "district_loop"
    /\ UNCHANGED <<engineVars, scraping_status, state_id, selected_districts,
                   districts_to_scrape, schools, school_i, district_data,
                   history, stopChecked, apart>>

\* "if district_data" writes the district's CSV file; next district.
save_district ==
    /\ pc = "save_district"
    /\ IF district_data # <<>>
       THEN /\ csv' = [csv EXCEPT ![csv_filename] = district_data]
            /\ created_files' = Append(created_files, csv_filename)
       ELSE UNCHANGED <<csv, created_files>>
    /\ dist_i' = dist_i + 1
    /\ pc' = "district_loop"
    /\ UNCHANGED <<engineVars, scraping_status, state_id, selected_districts,
                   districts_to_scrape, schools, school_i, district_data,
                   history, stopChecked, apart>>

\* InspireScraper.cleanup: closes the transport's session.
cleanup == TRUE

\* The download logic, scraper.cleanup() and "finally".
finish ==
    /\ pc = "finish"
    /\ closed' = cleanup
    /\ scraping_status' = Finally(scraping_status)
    /\ pc' = "done"
    /\ UNCHANGED <<viewstate, eventvalidation, viewstategen, op, payload,
                   response, waiting, ret, requests, irregular, log, before,
                   session, afterStop, state_id, selected_districts, loopVars,
                   history, stopChecked, apart>>

Next ==
    \/ start_scraping
    \/ stop_scraping
    \/ run_initialize_request
    \/ run_initialize_response
    \/ run_mode_request
    \/ run_mode_response
    \/ run_state_request
    \/ run_state_response
    \/ district_loop
    \/ run_district_request
    \/ run_district_response
    \/ school_loop
    \/ run_submit_request
    \/ run_submit_response
    \/ save_district
    \/ finish

Spec == Init /\ [][Next]_vars

\* The steps of the run_scraper thread.  Once started the thread keeps
\* running: a transport call returns (make_request has a timeout and a
\* bounded number of retries) and every other step is local.
Run ==
    \/ run_initialize_request
    \/ run_initialize_response
    \/ run_mode_request
    \/ run_mode_response
    \/ run_state_request
    \/ run_state_response
    \/ district_loop
    \/ run_district_request
    \/ run_district_response
    \/ school_loop
    \/ run_submit_request
    \/ run_submit_response
    \/ save_district
    \/ finish

SpecFair == Spec /\ WF_vars(Run)

\* ------------------------------------------- the engine's API, any caller
\* InspireScraper's methods are public: get_districts and run_scraper call
\* them in the wizard's order, another caller may call any of them on any
\* session.  SpecEngine is one session driven by such a caller.
InitEngine == Fresh /\ pc = "client" /\ input = <<>>

ClientCall(method, p, regular, responses) ==
    /\ pc = "client"
    /\ requests < MaxCalls
    /\ Request(method, p, regular, responses)
    /\ UNCHANGED runVars

call_initialize_page ==
    ClientCall("initialize_page", Get, PageRegular(requests + 1),
               PageResponses(requests + 1))

call_select_school_mode ==
    ClientCall("select_school_mode", payload_select_school_mode,
               ModeRegular(requests + 1),
               ModeResponses(requests + 1))

call_select_state ==
    \E s \in StateIds :
        ClientCall("select_state", payload_select_state(s),
                   DropdownRegular(requests + 1, ddlDist, DistrictIds),
               DropdownResponses(requests + 1, ddlDist, DistrictIds))

call_select_district ==
    \E s \in StateIds, d \in DistrictIds :
        ClientCall("select_district", payload_select_district(s, d),
                   DropdownRegular(requests + 1, ddlSchool, SchoolIds),
               DropdownResponses(requests + 1, ddlSchool, SchoolIds))

call_scrape_school_contacts_return ==
    \E s \in StateIds, d \in DistrictIds, k \in SchoolIds :
        ClientCall("scrape_school_contacts_return",
                   payload_scrape_school(s, d, k),
                   SubmitRegular(requests + 1, k),
               SubmitResponses(requests + 1, k))

\* The method called handles its response and returns to the caller.
MethodOutcome ==
    CASE op = "initialize_page" -> initialize_page(response)
      [] op = "select_school_mode" -> select_school_mode(response)
      [] op = "select_state" -> select_state(response)
      [] op = "select_district" -> select_district(response)
      [] OTHER -> scrape_school_contacts_return(
                      response, payload.ddlState, payload.ddlDist,
                      payload.ddlSchool)

method_returns ==
    /\ pc = "client"
    /\ Return(MethodOutcome, <<>>)
    /\ UNCHANGED runVars

NextEngine ==
    \/ call_initialize_page
    \/ call_select_school_mode
    \/ call_select_state
    \/ call_select_district
    \/ call_scrape_school_contacts_return
    \/ method_returns

SpecEngine == InitEngine /\ [][NextEngine]_vars

\* ------------------------------------- app.py: the threaded server's starts
\* app.run(threaded=True): every /api/start request is handled in a thread
\* of its own, and each accepted one starts a run_scraper thread.  Of
\* run_scraper only what it does to is_running and error is followed here.
runLocals == <<pc, state_id, selected_districts, loopVars, history,
               stopChecked>>
callVars == <<input, output, mr_at, slept, retry_total, attempts>>

InitServer == Fresh /\ pc = "server" /\ input = <<>>

\* "if scraping_status['is_running']" answers 400; else the request's
\* fields are validated (a request without state or districts answers 400).
start_check(h) ==
    /\ pc = "server"
    /\ handler[h] = "new"
    /\ IF scraping_status.is_running
       THEN handler' = [handler EXCEPT ![h] = "already_running"]
       ELSE \E valid \in BOOLEAN :
               handler' = [handler EXCEPT
                             ![h] = IF valid THEN "accepted"
                                    ELSE "bad_request"]
    /\ UNCHANGED <<engineVars, scraping_status, runLocals, thread, callVars>>

\* "scraping_status = {...}": the status is reset with is_running True.
start_reset(h) ==
    /\ pc = "server"
    /\ handler[h] = "accepted"
    /\ scraping_status' = [is_running |-> TRUE, should_stop |-> FALSE,
                           error |-> "None", total_records |-> 0]
    /\ handler' = [handler EXCEPT ![h] = "reset"]
    /\ UNCHANGED <<engineVars, runLocals, thread, callVars>>

\* thread.start() and the answer "Scraping started".
start_thread(h) ==
    /\ pc = "server"
    /\ handler[h] = "reset"
    /\ thread' = [thread EXCEPT ![h] = "started"]
    /\ handler' = [handler EXCEPT ![h] = "answered"]
    /\ UNCHANGED <<engineVars, scraping_status, runLocals, callVars>>

\* run_scraper's first statements.
run_begin(h) ==
    /\ pc = "server"
    /\ thread[h] = "started"
    /\ scraping_status' = [scraping_status EXCEPT !.is_running = TRUE,
                              !.error = "None", !.total_records = 0]
    /\ thread' = [thread EXCEPT ![h] = "running"]
    /\ UNCHANGED <<engineVars, runLocals, handler, callVars>>

\* The body of run_scraper: it ends normally or with an error set.
run_body(h) ==
    /\ pc = "server"
    /\ thread[h] = "running"
    /\ \E e \in {"None", "Failed to initialize scraper"} :
          scraping_status' = IF e = "None" THEN scraping_status
                             ELSE set_error(e)
    /\ thread' = [thread EXCEPT ![h] = "finally"]
    /\ UNCHANGED <<engineVars, runLocals, handler, callVars>>

\* "finally: scraping_status['is_running'] = False".
run_finally(h) ==
    /\ pc = "server"
    /\ thread[h] = "finally"
    /\ scraping_status' = Finally(scraping_status)
    /\ thread' = [thread EXCEPT ![h] = "finished"]
    /\ UNCHANGED <<engineVars, runLocals, handler, callVars>>

NextServer ==
    \/ \E h \in Starts :
          \/ start_check(h)
          \/ start_reset(h)
          \/ start_thread(h)
          \/ run_begin(h)
          \/ run_body(h)
          \/ run_finally(h)
    \/ stop_scraping

SpecServer == InitServer /\ [][NextServer]_vars

\* ------------------------------------------- parse_delta, one call on a text
\* str(n): the decimal digits of a length.
RECURSIVE str(_)
str(n) ==
    IF n < 10 THEN <<Digits[n + 1]>>
    ELSE str(n \div 10) \o <<Digits[(n % 10) + 1]>>

\* One segment of a delta body, "length|type|id|content|".
Segment(type, id, content) ==
    str(Len(content)) \o <<Bar, type, Bar>> \o id \o <<Bar>> \o content
        \o <<Bar>>

\* The values a hidden field may hold: empty, with blanks around a letter,
\* longer than nine symbols, and text with bars in it, among which the text
\* of a hidden-field segment.
LongValue == [i \in 1..11 |-> "a"]
FieldValues ==
    {<<>>, <<" ", "a", " ">>, LongValue, <<"a", Bar, "b">>,
     <<Bar, "1", Bar, hiddenField, Bar, "__EVENTVALIDATION", Bar, "x">>}

\* The delta bodies: the version segment, then the hidden fields the
\* postback updates (each of the three, or not), in the order the page
\* declares them, then a panel.
\* (a choice is <<>>, the field is not in the body, or <<value>>)
FieldChoices == [Fields -> {<<>>} \cup {<<v>> : v \in FieldValues}]
HiddenSegment(c, f) ==
    IF c[f] = <<>> THEN <<>>
    ELSE Segment(hiddenField, <<MarkerName[f]>>, c[f][1])
DeltaBody(c) ==
    Segment("#", <<>>, <<"4">>)
        \o HiddenSegment(c, "viewstate")
        \o HiddenSegment(c, "viewstategen")
        \o HiddenSegment(c, "eventvalidation")
        \o Segment("updatePanel", <<"p">>, <<"a", " ">>)
DeltaBodies == {DeltaBody(c) : c \in FieldChoices}

InitDelta == Fresh /\ pc = "parse_delta" /\ input \in DeltaBodies

call_parse_delta ==
    /\ pc = "parse_delta"
    /\ output = Unset
    /\ output' = parse_delta_text(input)
    /\ UNCHANGED <<engineVars, runVars, handler, thread, input, mr_at, slept,
                   retry_total, attempts>>

NextDelta == call_parse_delta

SpecDelta == InitDelta /\ [][NextDelta]_vars

\* ------------------------------------ row extraction, one call on a table
\* The texts a cell may hold: nothing, blanks only, a value with blanks and
\* a line break around it, a bare value.
NameTexts == {<<>>, <<" ", " ">>, <<" ", "N", "\n">>}
MobileTexts == {<<>>, <<"9", "9">>}
EmailTexts == {<<>>, <<"\t">>}
\* The rows a table may hold: six <td> cells (serial, school, name, mobile,
\* email, application number), a header row of <th> cells only, a row of
\* five cells and one of seven.
TableRows ==
    {<<<<"1">>, <<"S", " ", "A">>, n, m, e, <<"A", "1">>>> :
        n \in NameTexts, m \in MobileTexts, e \in EmailTexts}
    \cup {<<>>,
          <<<<"1">>, <<"S">>, <<"N">>, <<"9">>, <<"e">>>>,
          <<<<"1">>, <<"S">>, <<>>, <<>>, <<"e">>, <<"A">>, <<"x">>>>}
Tables == UNION {[1..n -> TableRows] : n \in 0..MaxRows}

InitRows == Fresh /\ pc = "table_contacts" /\ input \in Tables

call_table_contacts ==
    /\ pc = "table_contacts"
    /\ output = Unset
    /\ output' = List(table_contacts(input, "S", "D"))
    /\ UNCHANGED <<engineVars, runVars, handler, thread, input, mr_at, slept,
                   retry_total, attempts>>

NextRows == call_table_contacts

SpecRows == InitRows /\ [][NextRows]_vars

\* --------------------------- dropdown extraction, one call on a document
\* The options a <select> may hold: with no value attribute, with the
\* values "", "0" (the "--Select--" entry), "5" and "7", and with a label
\* that is empty, blank, bare or between blanks.
OptionLabels == {<<>>, <<" ", "\n">>, <<"A">>, <<" ", "B", " ">>}
Options ==
    {[has_value |-> TRUE, value |-> v, text |-> l] :
        v \in {"", "0", "5", "7"}, l \in OptionLabels}
    \cup {[has_value |-> FALSE, value |-> "", text |-> l] : l \in OptionLabels}
Selects(id) ==
    {[id |-> id, options |-> o] :
        o \in UNION {[1..n -> Options] : n \in 0..MaxOptions}}
OtherSelect ==
    [id |-> "y",
     options |-> <<[has_value |-> TRUE, value |-> "9", text |-> <<"Z">>]>>]
\* The documents: no <select>, another one only, the named one alone,
\* after another one, or before a second one of the same id.
Soups ==
    {<<>>, <<OtherSelect>>}
    \cup {<<x>> : x \in Selects("x")}
    \cup {<<OtherSelect, x>> : x \in Selects("x")}
    \cup {<<x, [OtherSelect EXCEPT !.id = "x"]>> : x \in Selects("x")}

InitDropdown == Fresh /\ pc = "extract_dropdown" /\ input \in Soups

call_extract_dropdown ==
    /\ pc = "extract_dropdown"
    /\ output = Unset
    /\ output' = List(dropdown_options(input, "x"))
    /\ UNCHANGED <<engineVars, runVars, handler, thread, input, mr_at, slept,
                   retry_total, attempts>>

NextDropdown == call_extract_dropdown

SpecDropdown == InitDropdown /\ [][NextDropdown]_vars

\* ------------------------------------------- make_request, one call alone
\* What one network attempt can end in: an HTTP status, with or without a
\* Retry-After header, a connection error or a timeout.  304 stands for the
\* statuses below 400 that are neither a success nor a redirect the session
\* follows.
Statuses == {200, 304, 400, 404, 413, 429, 500, 502, 503, 504}
AttemptOutcomes ==
    {[kind |-> "status", status |-> c, retry_after |-> h] :
        c \in Statuses, h \in BOOLEAN}
    \cup {[kind |-> k, status |-> 0, retry_after |-> FALSE] :
            k \in {"ConnectionError", "Timeout"}}

\* create_session's Retry: the statuses it is told to retry on, and those
\* it retries on when the response carries Retry-After
\* (respect_retry_after_header is left at its default, on).
status_forcelist == {429, 500, 502, 503, 504}
RETRY_AFTER_STATUS_CODES == {413, 429, 503}
allowed_methods == {"HEAD", "GET", "POST", "OPTIONS"}

\* Retry.is_retry: is a response with this status retried?
is_retry(method, o) ==
    /\ method \in allowed_methods
    /\ \/ o.status \in status_forcelist
       \/ /\ retry_total # 0
          /\ o.retry_after
          /\ o.status \in RETRY_AFTER_STATUS_CODES

\* response.raise_for_status(): 4xx and 5xx raise HTTPError.
raises_for_status(o) == o.status >= 400

InitTransport == Fresh /\ pc = "make_request" /\ input \in {"GET", "POST"}

\* make_request up to the network call: the timeout default and the
\* rate-limit delay.
make_request_sleep ==
    /\ pc = "make_request"
    /\ mr_at = "idle"
    /\ slept' = TRUE
    /\ mr_at' = "send"
    /\ UNCHANGED <<engineVars, runVars, handler, thread, input, output,
                   retry_total, attempts>>

\* session.get/post: one network attempt of the adapter.  An error or a
\* retried status uses up one retry and the adapter tries again, unless
\* none is left: then it raises.  Any other response goes back to
\* make_request, which raises for 4xx/5xx; "except Exception" logs and
\* returns None.
session_send ==
    /\ pc = "make_request"
    /\ mr_at = "send"
    /\ \E o \in AttemptOutcomes :
          /\ attempts' = Append(attempts, o)
          /\ IF o.kind # "status" \/ is_retry(input, o)
             THEN /\ retry_total' = retry_total - 1
                  /\ IF retry_total' < 0
                     THEN /\ output' = None
                          /\ log' = log \o RequestError
                          /\ mr_at' = "returned"
                     ELSE UNCHANGED <<output, log, mr_at>>
             ELSE /\ UNCHANGED retry_total
                  /\ mr_at' = "returned"
                  /\ IF raises_for_status(o)
                     THEN /\ output' = None
                          /\ log' = log \o RequestError
                     ELSE /\ output' = [kind |-> "response", val |-> o]
                          /\ UNCHANGED log
    /\ UNCHANGED <<viewstate, eventvalidation, viewstategen, op, payload,
                   response, waiting, ret, requests, irregular, before,
                   session, closed, afterStop, runVars, handler, thread,
                   input, slept>>

NextTransport ==
    \/ make_request_sleep
    \/ session_send

SpecTransport == InitTransport /\ [][NextTransport]_vars

\* ------------------------------------------------------------------ claims
DeltaMethods == {"select_school_mode", "select_state", "select_district"}
Submit == "scrape_school_contacts_return"
\* The engine method in op has returned.
Returned(method) == op = method /\ ~waiting
Range(q) == {q[i] : i \in DOMAIN q}

\* C1. Token replace is all-or-nothing: after select_school_mode,
\* select_state or select_district has handled a response body that lacks
\* one of the three token markers, the three stored tokens are the ones
\* stored before the step (none is overwritten with the empty string).
C1_ReplaceAllOrNothing ==
    \A m \in DeltaMethods :
        (Returned(m) /\ response.ok /\ response.has # Fields)
            => Stored = before

\* C2. A transition never partially applies: whenever initialize_page,
\* select_school_mode, select_state or select_district has returned False
\* or None, the three stored tokens are the ones stored before that call.
C2_FailureKeepsTokens ==
    \A m \in DeltaMethods \cup {"initialize_page"} :
        (Returned(m) /\ ret.kind \in {"False", "None"}) => Stored = before

\* C3. State-machine guard: no transport call is made for select_state
\* unless select_school_mode has succeeded on the session, none for
\* select_district unless that state is selected, none for the submit
\* unless that district is selected.
C3_GuardedTransitions ==
    waiting =>
        /\ op = "select_state" => session.mode
        /\ op = "select_district" => session.state = payload.ddlState
        /\ op = Submit => session.dist = payload.ddlDist

\* C4. A submit whose transport call failed returns something else than
\* what a successful submit without results returns (the empty list).
C4_SubmitFailureDistinct ==
    (Returned(Submit) /\ ~response.ok) => ~(ret.kind = "list" /\ ret.val = <<>>)

\* C5. End-to-end scenario: two districts, the first with three schools of
\* which exactly one submit fails in the transport and the other two give
\* records, the second with no school.  At the end of the run the records
\* written come only from the two succeeding schools, the log reports
\* exactly one skipped school, and no fatal error is set.
C5_Scenario ==
    /\ pc = "done"
    /\ districts_to_scrape = <<"1", "2">>
    /\ returned["1"].kind = "dict" /\ returned["1"].val = <<"1", "2", "3">>
    /\ returned["2"].kind = "dict" /\ returned["2"].val = <<>>
    /\ Cardinality(failedSubmits) = 1
    /\ Len(csv["1"]) = 2
    /\ csv["1"][1].School # csv["1"][2].School
SkippedSchoolsReported ==
    Cardinality({i \in DOMAIN log :
                    /\ log[i].msg = "Failed to scrape school"
                    /\ log[i].subject \in SchoolIds})
C5_EndToEnd ==
    C5_Scenario =>
        /\ \A i \in 1..2 : <<"1", csv["1"][i].School>> \notin failedSubmits
        /\ csv["2"] = <<>>
        /\ SkippedSchoolsReported = 1
        /\ scraping_status.error = "None"

\* C6, as claimed. Every step that succeeds, the submit step included,
\* leaves in the token store the token set of that step's response.
AllMethods == DeltaMethods \cup {"initialize_page", Submit}
Succeeded ==
    /\ ~waiting
    /\ response.ok
    /\ ~response.raises
    /\ ret.kind \in {"True", "dict", "list"}
TokensOfOneResponse ==
    \E n \in 0..requests :
        \A f \in Fields : Stored[f] \in {NoToken, Token(n, f)}
C7_CancelBetweenTransitions ==
    /\ TokensOfOneResponse
    /\ \A m \in AllMethods :
          (Returned(m) /\ response.ok /\ m # Submit
             /\ ~(m = "initialize_page"
                    /\ (response.raises \/ response.has # Fields)))
            => Stored = parse_delta(response)
    /\ pc = "scrape_school" => stopChecked
\* The stop request arrived while select_district was in its transport
\* call: the step was carried out in full all the same.
C7_Witness ==
    /\ scraping_status.should_stop
    /\ stopInFlight
    /\ pc = "school_loop"
    /\ Returned("select_district")
    /\ Stored = parse_delta(response)
    /\ Stored # before

\* C8. A failed branch never aborts the run or loses earlier data: the step
\* in which select_district returns None or empty, or a submit fails (in
\* the transport or in the parse), leaves the records accumulated, the
\* files written and the record count unchanged and goes on to the next
\* loop head with the lists of districts and schools untouched; and a run
\* that ends with no stop requested and no fatal error has called
\* select_district for every selected district and the submit for every
\* school of every map returned.
FailedBranchStep ==
    /\ waiting
    /\ ~waiting'
    /\ \/ pc = "select_district" /\ ~Truthy(select_district(response).ret)
       \/ pc = "scrape_school" /\ (~response.ok \/ response.raises)
EverythingAttempted ==
    \A i \in DOMAIN districts_to_scrape :
        LET d == districts_to_scrape[i] IN
        /\ <<d, "">> \in attempted
        /\ \A k \in Range(returned[d].val) : <<d, k>> \in attempted
C8_FailedBranchContinues ==
    /\ [][FailedBranchStep =>
            /\ district_data' = district_data
            /\ csv' = csv
            /\ created_files' = created_files
            /\ scraping_status' = scraping_status
            /\ districts_to_scrape' = districts_to_scrape
            /\ schools' = schools
            /\ \/ pc = "select_district" /\ pc' = "district_loop"
                  /\ dist_i' = dist_i + 1
               \/ pc = "scrape_school" /\ pc' = "school_loop"
                  /\ school_i' = school_i + 1 /\ dist_i' = dist_i]_vars
    /\ []((pc = "done" /\ ~scraping_status.should_stop
            /\ scraping_status.error = "None") => EverythingAttempted)
\* A run that went on after a failed submit with records already held, and
\* wrote them.
C8_Witness ==
    /\ pc = "done"
    /\ ~scraping_status.should_stop
    /\ failedSubmits = {<<"1", "2">>}
    /\ Len(csv["1"]) = 2
    /\ <<"2", "">> \in attempted

\* C9. If the initial page lacks one of the three hidden inputs,
\* initialize_page returns False, the stored tokens stay as they were and
\* the run ends there: it reports the failure and makes no other transport
\* call on the session.
C9_MalformedPageIsFatal ==
    session.malformed =>
        /\ op = "initialize_page"
        /\ requests = 1
        /\ ret = False
        /\ Stored = before
        /\ pc = "done"
        /\ scraping_status.error = "Failed to initialize scraper"
C9_Witness ==
    /\ session.malformed
    /\ response.has = {"viewstate", "eventvalidation"}
    /\ pc = "done"

\* C10. An empty option map is not a failure: when select_state has
\* returned {} the run sets no error, and when select_district has
\* returned {} the run logs no failure for that district.
C10_EmptyMapIsNoFailure ==
    /\ (Returned("select_state") /\ ret.kind = "dict" /\ ret.val = <<>>)
          => scraping_status.error = "None"
    /\ (Returned("select_district") /\ ret.kind = "dict" /\ ret.val = <<>>)
          => \A i \in DOMAIN log :
                ~(log[i].msg = "Failed to get schools"
                  /\ log[i].subject = payload.ddlDist)

\* C11. Every session created for a run is shut down: on every exit path
\* of run_scraper (success, failed initialize, failed mode selection, failed
\* state selection, stop, exception) cleanup() has been called on the
\* session when the run has finished.
C11_CleanupOnEveryExit ==
    pc = "done" => closed

\* C12. Every postback payload resends the whole selection chain made so
\* far with the tokens stored at the moment of the call: while a request is
\* in flight, the mode request carries the mode and nothing else; the
\* state request the mode and the state id; the district request the
\* mode, the state id and the district id; the submit request the mode,
\* the state id, the district id and the school id; each carries the three
\* stored tokens and __ASYNCPOST = true.
Carries(state, dist, school) ==
    /\ payload.method = "POST"
    /\ payload.rblSelect = "2"
    /\ payload.ddlState = state
    /\ payload.ddlDist = dist
    /\ payload.ddlSchool = school
    /\ payload.asyncpost = "true"
    /\ payload.viewstate = viewstate
    /\ payload.eventvalidation = eventvalidation
    /\ payload.viewstategen = viewstategen
C12_PayloadResendsChain ==
    waiting =>
        /\ op = "select_school_mode" => Carries(Absent, Absent, Absent)
        /\ op = "select_state" => Carries(state_id, Absent, Absent)
        /\ op = "select_district" =>
              Carries(state_id, districts_to_scrape[dist_i], Absent)
        /\ op = Submit =>
              Carries(state_id, districts_to_scrape[dist_i],
                      schools[school_i])
\* The submit for the second school of the second district is in flight
\* with the three tokens of that district's response.
C12_Witness ==
    /\ waiting
    /\ op = Submit
    /\ payload.ddlState = "1" /\ payload.ddlDist = "2"
    /\ payload.ddlSchool = "2"
    /\ \A f \in Fields : payload[f] # NoToken /\ payload[f] = Stored[f]
    /\ payload.viewstate # payload.viewstategen

\* C13. parse_delta agrees with the reference decoder of the delta
\* grammar for every delta body: for each of the three token names, if the
\* body holds that hidden field the value returned is the field's content
\* of the declared length (blanks kept, also when an earlier field's
\* content holds text that looks like a marker), and if it does not the
\* value returned is the empty string.
\* The reference decoder reads the body segment by segment, "length|type|
\* id|content|", skipping each content by its declared length.
RECURSIVE Decode(_, _)
Decode(text, i) ==
    IF i > Len(text) THEN <<>>
    ELSE LET j == DigitsEnd(text, i)
             length == int(SubSeq(text, i, j - 1))
             type == text[j + 1]
             id == IF text[j + 3] = Bar THEN <<>> ELSE <<text[j + 3]>>
             first == j + 4 + Len(id)
         IN  <<[type |-> type, id |-> id,
                content |-> SubSeq(text, first, first + length - 1)]>>
                 \o Decode(text, first + length + 1)
Reference(text) ==
    LET segs == Decode(text, 1)
        at(f) == {k \in DOMAIN segs :
                    /\ segs[k].type = hiddenField
                    /\ segs[k].id = <<MarkerName[f]>>}
    IN  [f \in Fields |->
            IF at(f) = {} THEN <<>>
            ELSE segs[CHOOSE k \in at(f) : \A m \in at(f) : k <= m].content]
C13_AgreesWithReference ==
    output # Unset => output = Reference(input)

\* C14. Row extraction: the first row of the table is always skipped; each
\* other row gives a record if and only if it has at least six cells and
\* its name, mobile or email cell (the third, fourth, fifth) is not blank;
\* the record's School, Name, Mobile, Email and Application_Number are the
\* second to sixth cell, trimmed; the records come in table order.
IsBlank(t) == \A k \in DOMAIN t : t[k] \in Whitespace
\* v is the text t without the whitespace at its two ends.
IsTrimOf(v, t) ==
    /\ \E a, b \in 0..Len(t) :
          /\ a + Len(v) + b = Len(t)
          /\ v = SubSeq(t, a + 1, a + Len(v))
          /\ \A k \in 1..a : t[k] \in Whitespace
          /\ \A k \in (Len(t) - b + 1)..Len(t) : t[k] \in Whitespace
    /\ v # <<>> => v[1] \notin Whitespace /\ v[Len(v)] \notin Whitespace
Qualifies(row) ==
    /\ Len(row) >= 6
    /\ ~IsBlank(row[3]) \/ ~IsBlank(row[4]) \/ ~IsBlank(row[5])
C14_RowExtraction ==
    output # Unset =>
        LET kept == {i \in 2..Len(input) : Qualifies(input[i])}
            \* the table row of the n-th record
            nth(n) == CHOOSE i \in kept :
                         Cardinality({k \in kept : k < i}) = n - 1
        IN  /\ Len(output.val) = Cardinality(kept)
            /\ \A n \in DOMAIN output.val :
                  LET row == input[nth(n)]
                      rec == output.val[n]
                  IN  /\ IsTrimOf(rec.School, row[2])
                      /\ IsTrimOf(rec.Name, row[3])
                      /\ IsTrimOf(rec.Mobile, row[4])
                      /\ IsTrimOf(rec.Email, row[5])
                      /\ IsTrimOf(rec.Application_Number, row[6])
\* A table whose first row is a qualifying data row (skipped), followed by
\* a row with a mobile number only (kept) and one with a name between
\* blanks (kept, trimmed).
C14_Witness ==
    /\ output # Unset
    /\ Len(input) = 3
    /\ Qualifies(input[1])
    /\ Len(input[2]) = 6 /\ Len(input[3]) = 6
    /\ input[2][3] = <<>> /\ input[2][4] = <<"9", "9">> /\ input[2][5] = <<>>
    /\ input[3][3] = <<" ", "N", "\n">>
    /\ Len(output.val) = 2
    /\ output.val[1].Mobile = <<"9", "9">>
    /\ output.val[2].Name = <<"N">>

\* C15. Dropdown extraction returns exactly the options of the named
\* select whose value is neither empty nor "0" and whose trimmed label is
\* not blank, keyed by value (one entry per value, its label the trimmed
\* label of such an option); if the named select is absent the result is
\* the empty map.
Named == {i \in DOMAIN input : input[i].id = "x"}
Wanted(o) ==
    /\ o.has_value
    /\ o.value # ""
    /\ o.value # "0"
    /\ ~IsBlank(o.text)
C15_DropdownExtraction ==
    output # Unset =>
        IF Named = {} THEN output.val = <<>>
        ELSE LET all == input[CHOOSE i \in Named : \A k \in Named : i <= k]
                            .options
                 wanted == {k \in DOMAIN all : Wanted(all[k])}
                 items == output.val
             IN  /\ {items[i].value : i \in DOMAIN items}
                       = {all[k].value : k \in wanted}
                 /\ \A i, j \in DOMAIN items :
                       items[i].value = items[j].value => i = j
                 /\ \A i \in DOMAIN items :
                       \E k \in wanted :
                          /\ all[k].value = items[i].value
                          /\ IsTrimOf(items[i].label, all[k].text)
\* The options ("0", " B ") and ("5", " B ") of the named select, which
\* stands after another select, give {"5": "B"}.
C15_Witness ==
    /\ output # Unset
    /\ Len(input) = 2
    /\ input[2].id = "x"
    /\ Len(input[2].options) = 2
    /\ input[2].options[1].has_value /\ input[2].options[1].value = "0"
    /\ input[2].options[1].text = <<" ", "B", " ">>
    /\ input[2].options[2].value = "5"
    /\ input[2].options[2].text = <<" ", "B", " ">>
    /\ output.val = <<[value |-> "5", label |-> <<"B">>]>>

\* C16. Transport retry is bounded and selective: one make_request call
\* makes at most 1 + MAX_RETRIES network attempts; an attempt is followed
\* by another only if it ended in HTTP 429/500/502/503/504, a connection
\* error or a timeout (so any other error status ends the call after that
\* one attempt); and a call whose last attempt ended in an error (an HTTP
\* error status, a connection error or a timeout) returns None.
RetryableAsClaimed(o) ==
    \/ o.kind \in {"ConnectionError", "Timeout"}
    \/ o.kind = "status" /\ o.status \in {429, 500, 502, 503, 504}
EndedInError(o) == o.kind # "status" \/ o.status >= 400
C16_BoundedSelectiveRetry ==
    /\ Len(attempts) <= 1 + MAX_RETRIES
    /\ \A i \in 1..(Len(attempts) - 1) : RetryableAsClaimed(attempts[i])
    /\ (mr_at = "returned" /\ EndedInError(attempts[Len(attempts)]))
          => output = None

\* C17. Graceful stop saves data: when the stop request arrives while a
\* district's schools are being scraped, the run ends with every record
\* collected for that district written to the district's CSV file; and
\* after a stop request that arrives inside the district loop at most one
\* more transport call (one select_district or one submit) is started.
C17_GracefulStopSaves ==
    /\ (pc = "done" /\ stopAt.pc \in {"school_loop", "scrape_school"})
          => /\ csv[stopAt.dist] = district_data
             /\ district_data # <<>> =>
                   \E i \in DOMAIN created_files :
                       created_files[i] = stopAt.dist
    /\ stopAt.pc \in {"district_loop", "select_district", "school_loop",
                       "scrape_school", "save_district"}
          => afterStop <= 1
\* The stop request arrived after the school loop's check for the second
\* school and before that school's submit: the submit was still made, the
\* third school was not, and the records of the first two were written.
C17_Witness ==
    /\ pc = "done"
    /\ stopAt.pc = "scrape_school"
    /\ ~stopInFlight
    /\ afterStop = 1
    /\ schools = <<"1", "2", "3">>
    /\ <<stopAt.dist, "2">> \in attempted
    /\ <<stopAt.dist, "3">> \notin attempted
    /\ Len(csv[stopAt.dist]) = 2

\* C18. At most one scraping run is active at any time, whatever the
\* interleaving of concurrent /api/start requests: two run_scraper threads
\* never exist together, and is_running is True for as long as a
\* run_scraper thread is active.
Active(h) == thread[h] \in {"started", "running", "finally"}
C18_AtMostOneRun ==
    /\ \A g, h \in Starts : (Active(g) /\ Active(h)) => g = h
    /\ (\E h \in Starts : Active(h)) => scraping_status.is_running

\* C19. Every started run terminates and releases the running flag: with
\* every transport call returning and the option maps finite, a run that
\* has been started reaches its end with is_running False, on every path
\* (success, failed initialize, mode or state step, stop, exception).
C19_RunTerminates ==
    (pc # "idle") ~> (pc = "done" /\ ~scraping_status.is_running)
\* A run that was stopped in its school loop has ended, the flag released.
C19_Witness ==
    /\ pc = "done"
    /\ ~scraping_status.is_running
    /\ scraping_status.should_stop
    /\ stopAt.pc = "school_loop"
    /\ created_files # <<>>

\* C20. Driver call ordering: the engine calls of a run are
\* initialize_page, then select_school_mode, then select_state, each
\* issued only after the one before it succeeded; then for each district
\* one select_district, followed only by submits for schools of that
\* district: a submit for school s of district d is issued right after the
\* select_district for d, which returned a map holding s, or after
\* another submit for d.
IssuesCall == ~waiting /\ waiting'
C20_DriverCallOrdering ==
    [][IssuesCall =>
        CASE op' = "initialize_page" -> requests = 0
          [] op' = "select_school_mode" ->
                op = "initialize_page" /\ ret = True
          [] op' = "select_state" ->
                op = "select_school_mode" /\ ret = True
          [] op' = "select_district" ->
                /\ \/ op = "select_state" /\ ret.kind = "dict"
                      /\ payload'.ddlDist \in Range(ret.val)
                   \/ op \in {"select_district", Submit}
                /\ <<payload'.ddlDist, "">> \notin attempted
                /\ payload'.ddlDist \in Range(districts_to_scrape)
          [] OTHER ->
                /\ op' = Submit
                /\ payload.ddlDist = payload'.ddlDist
                /\ \/ op = "select_district" /\ ret.kind = "dict"
                      /\ payload'.ddlSchool \in Range(ret.val)
                   \/ op = Submit
                /\ returned[payload'.ddlDist].kind = "dict"
                /\ payload'.ddlSchool
                      \in Range(returned[payload'.ddlDist].val)
                /\ <<payload'.ddlDist, payload'.ddlSchool>> \notin attempted
    ]_vars
\* The submit for the third school of the second district is in flight,
\* after the first district's schools were submitted.
C20_Witness ==
    /\ waiting
    /\ op = Submit
    /\ payload.ddlDist = "2"
    /\ payload.ddlSchool = "3"
    /\ {<<"1", "">>, <<"1", "1">>, <<"1", "2">>, <<"2", "">>, <<"2", "2">>}
          \subseteq attempted

\* C21. The submit step leaves the token store unchanged: whatever the
\* response, the three stored tokens after scrape_school_contacts_return
\* returns are the ones stored when it was called.  So every submit of a
\* district sends the same token set, the one that district's
\* select_district call stored: the first submit follows a select_district
\* that got a response and sends the tokens of that response (the empty
\* string for a marker the response lacked), and each later submit
\* follows a submit for the same district and sends what that one sent.
Sent(p) == [f \in Fields |-> p[f]]
Carried(r) ==
    [f \in Fields |-> IF f \in r.has THEN Token(r.n, f) ELSE NoToken]
SubmitReturns == waiting /\ ~waiting' /\ op = Submit
C21_SubmitLeavesTokens ==
    [][/\ SubmitReturns => Stored' = Stored
       /\ (IssuesCall /\ op' = Submit) =>
             /\ Sent(payload') = Stored
             /\ op \in {"select_district", Submit}
             /\ op = "select_district" =>
                   response.ok /\ Stored = Carried(response)
             /\ op = Submit =>
                   /\ payload'.ddlDist = payload.ddlDist
                   /\ Sent(payload') = Sent(payload)
    ]_vars
\* The submit for the second school of a district has returned from a
\* response that carried all three markers and a results table, after the
\* submit for the first school: the store still holds the tokens that
\* submit sent, which are tokens of an earlier response.
C21_Witness ==
    /\ Returned(Submit)
    /\ payload.ddlSchool = "2"
    /\ <<payload.ddlDist, "1">> \in attempted
    /\ response.ok
    /\ response.has = Fields
    /\ response.hasTable
    /\ Stored = Sent(payload)
    /\ \A f \in Fields :
          Stored[f] # NoToken /\ Stored[f] # Carried(response)[f]

\* C22. make_request never raises to its caller: a call that has ended has
\* returned None or a response; it has returned a response exactly when
\* its last network attempt ended in a success status (2xx), and None for
\* every other outcome (a connection error, a timeout, the retries used
\* up, any status that is not 2xx); and no network attempt is made before
\* the rate-limit delay has been slept.
SuccessStatus(o) == o.kind = "status" /\ o.status \in 200..299
C22_NoneUnlessSuccess ==
    /\ mr_at = "returned" =>
          /\ attempts # <<>>
          /\ IF SuccessStatus(attempts[Len(attempts)])
             THEN output = [kind |-> "response",
                            val |-> attempts[Len(attempts)]]
             ELSE output = None
    /\ attempts # <<>> => slept

====
